---- MODULE Spec2Model ----
(***************************************************************************)
(* A model of the resilience layer of nowpayments-api:                     *)
(*   - the request executor NowPaymentsAPI._retryRequest with its axios    *)
(*     interceptors (ExecSpec), and                                        *)
(*   - the connection manager NOWPaymentsWebSocket with its ping/pong      *)
(*     heartbeat and its reconnect timer (WsSpec).                         *)
(* The two subsystems share no runtime state; each specification leaves    *)
(* the variables of the other one unchanged.                               *)
(***************************************************************************)
EXTENDS Integers, Sequences, FiniteSets, TLC

VARIABLES
  \* ---- request executor (one entry per logical call) ----
  pc,            \* position of the call: idle, admit, inflight, sleeping, done;
                 \* validating and rejected for an operation that validates
                 \* its parameters before it calls _retryRequest
  retries,       \* the `retries` argument of _retryRequest
  script,        \* what the transport answers on attempt 1, 2, ... of the call
  attempt,       \* the loop variable of _retryRequest
  dispatches,    \* requests handed to the transport
  waits,         \* the delays passed to _sleep, in order
  result,        \* what _retryRequest returned or threw
  logs,          \* lines written by _logRequest
  tokens,        \* tokens left in this.rateLimiter
  refused,       \* the schema rejected the parameters of the call
  \* ---- connection manager ----
  options,            \* this.options
  ws,                 \* this.ws: NoWs or the attached channel
  attached,           \* the channels that carry handlers of the manager
  isConnected,
  reconnectAttempts,
  lastPing,
  pongTimeout,        \* handle of the last pong-deadline timer
  pingInterval,       \* handle of the last ping interval
  reconnectTimer,     \* handle of the last reconnect timer
  timers,             \* the live timers of the event loop
  now,                \* Date.now(), saturating at MaxTime
  emitted,            \* the events emitted by the last handler that ran
  hist                \* observations of the run (see HistInit)

execVars == <<pc, retries, script, attempt, dispatches, waits, result, logs, tokens,
              refused>>
wsVars == <<options, ws, attached, isConnected, reconnectAttempts, lastPing, pongTimeout,
            pingInterval, reconnectTimer, timers, now, emitted, hist>>
vars == <<execVars, wsVars>>

RECURSIVE Pow(_, _)
\* Math.pow on non-negative integers
Pow(b, e) == IF e = 0 THEN 1 ELSE b * Pow(b, e - 1)

Min(a, b) == IF a < b THEN a ELSE b

\* ------------------------------------------------------------------------
\* Bounds of the model
\* ------------------------------------------------------------------------
NumCalls == 2
MaxRetries == 2

\* ------------------------------------------------------------------------
\* lib/constants.js
\* ------------------------------------------------------------------------
MAX_RETRIES == 3
BACKOFF_FACTOR == 2
INITIAL_DELAY == 1000
TokensPerInterval == 100

\* module.exports of lib/constants.js, restricted to the entries the
\* resilience layer reads.  There is no RETRY_CONFIG entry.
constants ==
  [ DEFAULT_CONFIG |->
      [ TIMEOUT |-> 30000,
        RETRY |-> [ MAX_RETRIES |-> MAX_RETRIES,
                    BACKOFF_FACTOR |-> BACKOFF_FACTOR,
                    INITIAL_DELAY |-> INITIAL_DELAY ] ],
    HTTP_METHODS |-> [ GET |-> "get", POST |-> "post" ] ]

\* ------------------------------------------------------------------------
\* Request executor
\* ------------------------------------------------------------------------
Calls == 1..NumCalls

\* What the transport can answer to one dispatch: an HTTP status, or 0 for a
\* network error (no HTTP response at all).
NetErr == 0
Statuses == {200, 404, 429, 503, NetErr}

IsSuccess(s) == s >= 200 /\ s <= 299
Is4xxNot429(s) == s >= 400 /\ s <= 499 /\ s # 429
IsRetryableStatus(s) == s = 429 \/ (s >= 500 /\ s <= 599)

\* The transport's answers to the attempts of one call, as far as any
\* executor can ask for them: every answer before the last is a retryable
\* failure, and the script is shorter than r only if it ends with a success
\* or a terminal failure.  Past its end the last answer repeats.
Scripts(r) ==
  UNION { { s \in [1..n -> Statuses] :
              /\ \A k \in 1..(n - 1) : IsRetryableStatus(s[k])
              /\ n < r => ~IsRetryableStatus(s[n]) } : n \in 1..r }

ScriptAt(s, k) == s[Min(k, Len(s))]

\* The response body of attempt k of call c: every attempt has its own.
Body(c, k, s) == [call |-> c, attempt |-> k, status |-> s]
NoBody == [call |-> 0, attempt |-> 0, status |-> 0]
\* error.response.data.message: the message the server put in that body
Message(body) == [text |-> "server message", call |-> body.call, attempt |-> body.attempt]
OwnMessage(text) == [text |-> text, call |-> 0, attempt |-> 0]

\* errors.js: new APIError(message, statusCode, responseData)
APIError(message, statusCode, responseData) ==
  [ name |-> "APIError", message |-> message, codeType |-> "number",
    code |-> statusCode, statusCode |-> statusCode, data |-> responseData,
    hasResponse |-> FALSE ]

\* The error axios rejects with: error.response is set when the server
\* answered; otherwise error.code is a string such as ECONNRESET.
AxiosError(c, k, s) ==
  IF s = NetErr
    THEN [ name |-> "AxiosError", message |-> OwnMessage("Network Error"),
           codeType |-> "string", code |-> 0, statusCode |-> 0, data |-> NoBody,
           hasResponse |-> FALSE ]
    ELSE [ name |-> "AxiosError", message |-> OwnMessage("Request failed"),
           codeType |-> "string", code |-> 0, statusCode |-> s, data |-> Body(c, k, s),
           hasResponse |-> TRUE ]

\* TypeError: Cannot read properties of undefined (reading 'INITIAL_DELAY')
TypeErrorUndefined ==
  [ name |-> "TypeError", message |-> OwnMessage("Cannot read properties of undefined"),
    codeType |-> "undefined", code |-> 0, statusCode |-> 0, data |-> NoBody,
    hasResponse |-> FALSE ]

\* The rejection handler of the response interceptor
ResponseInterceptorError(error) ==
  IF error.hasResponse
    THEN APIError(Message(error.data), error.statusCode, error.data)
    ELSE error

\* The catch block of _makeRequest
MakeRequestCatch(error) ==
  IF error.hasResponse
    THEN APIError(Message(error.data), error.statusCode, error.data)
    ELSE error

\* A plausible bug: a failure without a numeric code counts as retryable
IsRetryableLoose(error) ==
  \/ error.codeType # "number"
  \/ (error.code = 429 \/ (error.code >= 500 /\ error.code <= 599))

\* _isRetryable: a comparison of a non-numeric code with a number is false
IsRetryable(error) ==
  /\ error.codeType = "number"
  /\ (error.code = 429 \/ (error.code >= 500 /\ error.code <= 599))

\* The argument of _sleep in _retryRequest: constants.RETRY_CONFIG is looked
\* up in the exports of lib/constants.js.
SleepArgument(att) ==
  IF "RETRY_CONFIG" \in DOMAIN constants
    THEN [ ok |-> TRUE,
           ms |-> constants["RETRY_CONFIG"].INITIAL_DELAY
                    * Pow(constants["RETRY_CONFIG"].BACKOFF_FACTOR, att - 1) ]
    ELSE [ ok |-> FALSE, ms |-> 0 ]

\* A plausible bug: every failure is retried (and the delay is in place)
RetryCatchRetriesAll(error, att, rts) ==
  IF att = rts
    THEN [ act |-> "throw", error |-> error, ms |-> 0 ]
    ELSE [ act |-> "sleep", error |-> error,
           ms |-> INITIAL_DELAY * Pow(BACKOFF_FACTOR, att - 1) ]

\* A plausible bug: the last attempt is recognised one attempt late (and the
\* delay is in place)
RetryCatchOneMore(error, att, rts) ==
  IF att = rts + 1 \/ ~IsRetryable(error)
    THEN [ act |-> "throw", error |-> error, ms |-> 0 ]
    ELSE [ act |-> "sleep", error |-> error,
           ms |-> INITIAL_DELAY * Pow(BACKOFF_FACTOR, att - 1) ]

\* The catch block of _retryRequest: rethrow, or sleep before the next attempt
RetryCatch(error, att, rts) ==
  IF att = rts \/ ~IsRetryable(error)
    THEN [ act |-> "throw", error |-> error, ms |-> 0 ]
    ELSE IF SleepArgument(att).ok
      THEN [ act |-> "sleep", error |-> error, ms |-> SleepArgument(att).ms ]
      ELSE [ act |-> "throw", error |-> TypeErrorUndefined, ms |-> 0 ]

NoError ==
  [ name |-> "none", message |-> OwnMessage(""), codeType |-> "undefined", code |-> 0,
    statusCode |-> 0, data |-> NoBody, hasResponse |-> FALSE ]

NoResult == [ kind |-> "none", data |-> NoBody, error |-> NoError ]

\* The public operations that await _validateSchema before they call
\* _retryRequest; the others call _retryRequest at once
ValidatedOperations ==
  { "createPayment", "createInvoice", "getPayments", "createPayout",
    "createBatchPayout" }

\* errors.js: new ValidationError(message, details)
ValidationError ==
  [ name |-> "ValidationError", message |-> OwnMessage("validation"),
    codeType |-> "string", code |-> 0, statusCode |-> 0, data |-> NoBody,
    hasResponse |-> FALSE ]

\* A plausible bug: the failure of the validation is swallowed
ValidateSchemaSwallows(ok) == [ act |-> "return", error |-> NoError ]

\* _validateSchema(data, schema), `ok` telling whether schema.validateAsync
\* accepts the data
ValidateSchema(ok) ==
  IF ok THEN [ act |-> "return", error |-> NoError ]
        ELSE [ act |-> "throw", error |-> ValidationError ]

ExecInit ==
  /\ pc = [c \in Calls |-> "idle"]
  /\ retries = [c \in Calls |-> 0]
  /\ script = [c \in Calls |-> <<>>]
  /\ attempt = [c \in Calls |-> 0]
  /\ dispatches = [c \in Calls |-> 0]
  /\ waits = [c \in Calls |-> <<>>]
  /\ result = [c \in Calls |-> NoResult]
  /\ logs = [c \in Calls |-> 0]
  /\ tokens = TokensPerInterval
  /\ refused = [c \in Calls |-> FALSE]

\* _retryRequest(config, retries) is called: the loop starts with attempt 1,
\* _makeRequest hands the request to axios and the request interceptor awaits
\* the rate limiter.
Start(c, r, s) ==
  /\ pc[c] = "idle"
  /\ pc' = [pc EXCEPT ![c] = "admit"]
  /\ retries' = [retries EXCEPT ![c] = r]
  /\ script' = [script EXCEPT ![c] = s]
  /\ attempt' = [attempt EXCEPT ![c] = 1]
  /\ UNCHANGED <<dispatches, waits, result, logs, tokens, refused>>
  /\ UNCHANGED wsVars

\* The public operation `op`, one with a schema, is called: it awaits
\* _validateSchema.
Invoke(c, op) ==
  /\ pc[c] = "idle"
  /\ op \in ValidatedOperations
  /\ pc' = [pc EXCEPT ![c] = "validating"]
  /\ UNCHANGED <<retries, script, attempt, dispatches, waits, result, logs, tokens,
                 refused>>
  /\ UNCHANGED wsVars

\* _validateSchema settles: the operation throws, or calls _retryRequest with
\* the default `retries`.
Validated(c, ok, s) ==
  /\ pc[c] = "validating"
  /\ IF ValidateSchema(ok).act = "throw"
       THEN /\ result' = [result EXCEPT ![c] =
                  [kind |-> "failure", data |-> NoBody,
                   error |-> ValidateSchema(ok).error]]
            /\ pc' = [pc EXCEPT ![c] = "rejected"]
            /\ UNCHANGED <<retries, script, attempt>>
       ELSE /\ pc' = [pc EXCEPT ![c] = "admit"]
            /\ retries' = [retries EXCEPT ![c] = MAX_RETRIES]
            /\ script' = [script EXCEPT ![c] = s]
            /\ attempt' = [attempt EXCEPT ![c] = 1]
            /\ UNCHANGED result
  /\ refused' = [refused EXCEPT ![c] = ~ok]
  /\ UNCHANGED <<dispatches, waits, logs, tokens>>
  /\ UNCHANGED wsVars

\* A plausible bug: the request goes out without a token of the limiter
ResumeWithoutToken(c) ==
  /\ pc[c] \in {"admit", "sleeping"}
  /\ IF pc[c] = "admit"
       THEN /\ dispatches' = [dispatches EXCEPT ![c] = @ + 1]
            /\ pc' = [pc EXCEPT ![c] = "inflight"]
            /\ UNCHANGED <<attempt, tokens>>
       ELSE /\ attempt' = [attempt EXCEPT ![c] = @ + 1]
            /\ pc' = [pc EXCEPT ![c] = "admit"]
            /\ UNCHANGED <<tokens, dispatches>>
  /\ UNCHANGED <<retries, script, waits, result, logs, refused>>
  /\ UNCHANGED wsVars

\* A plausible bug: the loop does not await the request and goes on to the
\* next attempt while the request is in flight
ResumeDoesNotAwait(c) ==
  /\ pc[c] \in {"admit", "sleeping"}
  /\ pc[c] = "admit" => tokens >= 1
  /\ IF pc[c] = "admit"
       THEN /\ tokens' = tokens - 1
            /\ dispatches' = [dispatches EXCEPT ![c] = @ + 1]
            /\ IF attempt[c] < retries[c]
                 THEN /\ attempt' = [attempt EXCEPT ![c] = @ + 1]
                      /\ UNCHANGED pc
                 ELSE /\ pc' = [pc EXCEPT ![c] = "inflight"]
                      /\ UNCHANGED attempt
       ELSE /\ attempt' = [attempt EXCEPT ![c] = @ + 1]
            /\ pc' = [pc EXCEPT ![c] = "admit"]
            /\ UNCHANGED <<tokens, dispatches>>
  /\ UNCHANGED <<retries, script, waits, result, logs, refused>>
  /\ UNCHANGED wsVars

\* An awaited promise of the call resolves: rateLimiter.removeTokens(1) in the
\* request interceptor (the request goes out), or _sleep (the next iteration
\* of the loop starts).
Resume(c) ==
  /\ pc[c] \in {"admit", "sleeping"}
  /\ pc[c] = "admit" => tokens >= 1
  /\ IF pc[c] = "admit"
       THEN /\ tokens' = tokens - 1
            /\ dispatches' = [dispatches EXCEPT ![c] = @ + 1]
            /\ pc' = [pc EXCEPT ![c] = "inflight"]
            /\ UNCHANGED attempt
       ELSE /\ attempt' = [attempt EXCEPT ![c] = @ + 1]
            /\ pc' = [pc EXCEPT ![c] = "admit"]
            /\ UNCHANGED <<tokens, dispatches>>
  /\ UNCHANGED <<retries, script, waits, result, logs, refused>>
  /\ UNCHANGED wsVars

\* The transport answers the request in flight: the response interceptor,
\* _makeRequest and the try/catch of _retryRequest run.
Respond(c) ==
  /\ pc[c] = "inflight"
  /\ LET k == attempt[c]
         s == ScriptAt(script[c], k)
         thrown == MakeRequestCatch(ResponseInterceptorError(AxiosError(c, k, s)))
         d == RetryCatch(thrown, k, retries[c])
     IN IF IsSuccess(s)
          THEN /\ logs' = [logs EXCEPT ![c] = @ + 1]
               /\ result' = [result EXCEPT ![c] =
                     [kind |-> "success", data |-> Body(c, k, s), error |-> NoError]]
               /\ pc' = [pc EXCEPT ![c] = "done"]
               /\ UNCHANGED waits
          ELSE IF d.act = "throw"
            THEN /\ result' = [result EXCEPT ![c] =
                       [kind |-> "failure", data |-> NoBody, error |-> d.error]]
                 /\ pc' = [pc EXCEPT ![c] = "done"]
                 /\ UNCHANGED <<logs, waits>>
            ELSE /\ waits' = [waits EXCEPT ![c] = Append(@, d.ms)]
                 /\ pc' = [pc EXCEPT ![c] = "sleeping"]
                 /\ UNCHANGED <<logs, result>>
  /\ UNCHANGED <<retries, script, attempt, dispatches, tokens, refused>>
  /\ UNCHANGED wsVars

\* The `retries` that callers of _retryRequest pass: a number up to
\* MaxRetries, or nothing, as the public operations without a schema do
RetriesInputs == (1..MaxRetries) \cup {MAX_RETRIES}

\* The inputs in S that a call at position `at` can take: elsewhere it takes
\* none
Inputs(c, at, S) == IF pc[c] = at THEN S ELSE {}

ExecNext ==
  \E c \in Calls :
    \/ \E r \in Inputs(c, "idle", RetriesInputs) : \E s \in Scripts(r) : Start(c, r, s)
    \/ \E op \in Inputs(c, "idle", ValidatedOperations) : Invoke(c, op)
    \/ \E ok \in Inputs(c, "validating", BOOLEAN) :
         \E s \in Scripts(MAX_RETRIES) : Validated(c, ok, s)
    \/ Resume(c)
    \/ Respond(c)

\* ------------------------------------------------------------------------
\* Connection manager (lib/WebSocketClient.js)
\* ------------------------------------------------------------------------
\* Bounds: the largest maxReconnectAttempts a caller passes, where the clock
\* saturates, and where the count of give-up errors saturates.
MaxOptAttempts == 1
MaxTime == 2000
CountCap == 2

\* Defaults of the constructor
DefaultMaxReconnectAttempts == 5
DefaultReconnectDelay == 1000
DefaultPingInterval == 30000
DefaultPongTimeout == 5000

\* A timer field holds null or the handle setTimeout / setInterval returned
\* last; lastPing holds null or a time.
NoHandle == "null"
Handle == "handle"
NoTime == 0 - 1

\* this.ws when no channel is attached (undefined or null)
NoWs == [readyState |-> "none", pings |-> 0]

\* `value || fallback` on numbers: 0 and undefined (written 0) are falsy
OrDefault(value, fallback) == IF value = 0 THEN fallback ELSE value

\* What callers pass as options (0: the option is left out).  The second
\* ping interval is shorter than the default pong timeout.
OptionInputs ==
  [ maxReconnectAttempts : 0..MaxOptAttempts,
    reconnectDelay : {0},
    pingInterval : {0, 2000},
    pongTimeout : {0} ]

\* The constructor
Constructor(o) ==
  [ maxReconnectAttempts |-> OrDefault(o.maxReconnectAttempts, DefaultMaxReconnectAttempts),
    reconnectDelay |-> OrDefault(o.reconnectDelay, DefaultReconnectDelay),
    pingInterval |-> OrDefault(o.pingInterval, DefaultPingInterval),
    pongTimeout |-> OrDefault(o.pongTimeout, DefaultPongTimeout) ]

\* The fields of the manager and the event loop's timers as one value m, so
\* that the methods, which call each other, are functions of it.  m.out
\* collects the events the running handler emits, m.terminated records that
\* the last _handleDisconnect gave up and no connect() or close() followed.
Cur ==
  [ ws |-> ws, attached |-> attached, isConnected |-> isConnected,
    reconnectAttempts |-> reconnectAttempts,
    lastPing |-> lastPing, pongTimeout |-> pongTimeout, pingInterval |-> pingInterval,
    reconnectTimer |-> reconnectTimer, timers |-> timers, out |-> <<>>,
    terminated |-> hist.terminated ]

Event(type, code, n) == [type |-> type, code |-> code, n |-> n]
Emit(m, e) == [m EXCEPT !.out = Append(@, e)]

\* A live timer is [kind, left, held]: what it is for (ping, pong,
\* reconnect), the time left until it fires, and whether the field of its
\* kind (pingInterval, pongTimeout, reconnectTimer) still holds its handle.
\* A timer whose handle was overwritten stays live and can no longer be
\* cleared.
\* clearTimeout / clearInterval of the field of that kind: a null handle and
\* the handle of a timer that is gone clear nothing
ClearTimer(m, kind) ==
  [m EXCEPT !.timers = {t \in @ : ~(t.kind = kind /\ t.held)}]

\* this.<field> = setTimeout / setInterval(callback, ms)
SetTimer(m, kind, ms) ==
  LET others == {IF t.kind = kind THEN [t EXCEPT !.held = FALSE] ELSE t : t \in m.timers}
      m1 == [m EXCEPT !.timers = others \cup {[kind |-> kind, left |-> ms, held |-> TRUE]}]
  IN CASE kind = "ping" -> [m1 EXCEPT !.pingInterval = Handle]
       [] kind = "pong" -> [m1 EXCEPT !.pongTimeout = Handle]
       [] kind = "reconnect" -> [m1 EXCEPT !.reconnectTimer = Handle]

\* close()
CloseM(m) ==
  LET m1 == ClearTimer(ClearTimer(ClearTimer(m, "ping"), "pong"), "reconnect")
  IN [m1 EXCEPT !.ws = NoWs, !.isConnected = FALSE, !.terminated = FALSE,
                !.attached = IF m.ws # NoWs THEN @ - 1 ELSE @]

\* _startPingPong()
StartPingPongM(m) == SetTimer(m, "ping", options.pingInterval)

\* A plausible bug: the channel is replaced without closing the old one
ConnectKeepsOld(m) ==
  LET m2 == [m EXCEPT !.ws = [readyState |-> "CONNECTING", pings |-> 0],
                      !.attached = @ + 1,
                      !.terminated = FALSE]
  IN StartPingPongM(m2)

\* connect(): _setupEventHandlers attaches the handlers, which are the
\* Ws... actions below
ConnectM(m) ==
  LET m1 == IF m.ws # NoWs THEN CloseM(m) ELSE m
      m2 == [m1 EXCEPT !.ws = [readyState |-> "CONNECTING", pings |-> 0],
                       !.attached = @ + 1,
                       !.terminated = FALSE]
  IN StartPingPongM(m2)

\* A plausible bug: the attempts are compared with <= instead of <
HandleDisconnectOneMore(m, reason) ==
  LET m1 == ClearTimer(ClearTimer([m EXCEPT !.isConnected = FALSE], "ping"), "pong")
      m2 == Emit(m1, Event("disconnected", reason, 0))
      m3 == IF m2.reconnectTimer # NoHandle THEN ClearTimer(m2, "reconnect") ELSE m2
  IN IF m3.reconnectAttempts <= options.maxReconnectAttempts
       THEN LET n == m3.reconnectAttempts + 1
                delay == options.reconnectDelay * Pow(2, n - 1)
                m4 == Emit([m3 EXCEPT !.reconnectAttempts = n],
                           Event("reconnecting", "", n))
            IN [SetTimer(m4, "reconnect", delay) EXCEPT !.terminated = FALSE]
       ELSE [Emit(m3, Event("error", "MaxReconnectError", 0)) EXCEPT
               !.terminated = TRUE]

\* A plausible bug: the attempt is announced before the loss is reported
HandleDisconnectAnnouncesFirst(m, reason) ==
  LET m1 == ClearTimer(ClearTimer([m EXCEPT !.isConnected = FALSE], "ping"), "pong")
      m3 == IF m1.reconnectTimer # NoHandle THEN ClearTimer(m1, "reconnect") ELSE m1
  IN IF m3.reconnectAttempts < options.maxReconnectAttempts
       THEN LET n == m3.reconnectAttempts + 1
                delay == options.reconnectDelay * Pow(2, n - 1)
                m4 == Emit(Emit([m3 EXCEPT !.reconnectAttempts = n],
                                Event("reconnecting", "", n)),
                           Event("disconnected", reason, 0))
            IN [SetTimer(m4, "reconnect", delay) EXCEPT !.terminated = FALSE]
       ELSE [Emit(Emit(m3, Event("disconnected", reason, 0)),
                  Event("error", "MaxReconnectError", 0)) EXCEPT
               !.terminated = TRUE]

\* A plausible bug: the attempt is counted and announced, and no timer is armed
HandleDisconnectArmsNothing(m, reason) ==
  LET m1 == ClearTimer(ClearTimer([m EXCEPT !.isConnected = FALSE], "ping"), "pong")
      m2 == Emit(m1, Event("disconnected", reason, 0))
      m3 == IF m2.reconnectTimer # NoHandle THEN ClearTimer(m2, "reconnect") ELSE m2
  IN IF m3.reconnectAttempts < options.maxReconnectAttempts
       THEN LET n == m3.reconnectAttempts + 1
            IN [Emit([m3 EXCEPT !.reconnectAttempts = n],
                     Event("reconnecting", "", n)) EXCEPT !.terminated = FALSE]
       ELSE [Emit(m3, Event("error", "MaxReconnectError", 0)) EXCEPT
               !.terminated = TRUE]

\* A plausible bug: the delay grows linearly with the attempts
HandleDisconnectLinear(m, reason) ==
  LET m1 == ClearTimer(ClearTimer([m EXCEPT !.isConnected = FALSE], "ping"), "pong")
      m2 == Emit(m1, Event("disconnected", reason, 0))
      m3 == IF m2.reconnectTimer # NoHandle THEN ClearTimer(m2, "reconnect") ELSE m2
  IN IF m3.reconnectAttempts < options.maxReconnectAttempts
       THEN LET n == m3.reconnectAttempts + 1
                delay == options.reconnectDelay * n
                m4 == Emit([m3 EXCEPT !.reconnectAttempts = n],
                           Event("reconnecting", "", n))
            IN [SetTimer(m4, "reconnect", delay) EXCEPT !.terminated = FALSE]
       ELSE [Emit(m3, Event("error", "MaxReconnectError", 0)) EXCEPT
               !.terminated = TRUE]

\* _handleDisconnect(code, reason)
HandleDisconnectM(m, reason) ==
  LET m1 == ClearTimer(ClearTimer([m EXCEPT !.isConnected = FALSE], "ping"), "pong")
      m2 == Emit(m1, Event("disconnected", reason, 0))
      m3 == IF m2.reconnectTimer # NoHandle THEN ClearTimer(m2, "reconnect") ELSE m2
  IN IF m3.reconnectAttempts < options.maxReconnectAttempts
       THEN LET n == m3.reconnectAttempts + 1
                delay == options.reconnectDelay * Pow(2, n - 1)
                m4 == Emit([m3 EXCEPT !.reconnectAttempts = n],
                           Event("reconnecting", "", n))
            IN [SetTimer(m4, "reconnect", delay) EXCEPT !.terminated = FALSE]
       ELSE [Emit(m3, Event("error", "MaxReconnectError", 0)) EXCEPT
               !.terminated = TRUE]

\* A plausible bug: the deadline marks the manager disconnected and stops the
\* heartbeat, and schedules no reconnect
PongTimeoutNoReconnect(m) ==
  Emit(ClearTimer(ClearTimer([m EXCEPT !.isConnected = FALSE], "ping"), "pong"),
       Event("disconnected", "Pong timeout", 0))

\* The callback of the pong-deadline timer
PongTimeoutCallback(m) == HandleDisconnectM(m, "Pong timeout")

\* The callback of the ping interval
PingCallback(m) ==
  IF m.isConnected
    THEN LET m1 == [m EXCEPT !.lastPing = now, !.ws.pings = @ + 1]
         IN SetTimer(m1, "pong", options.pongTimeout)
    ELSE m

\* getState()
GetState ==
  [ isConnected |-> isConnected,
    lastConnected |-> lastPing,
    reconnectAttempts |-> reconnectAttempts ]

\* ---- observations -------------------------------------------------------
\*  wasConnected    isConnected when the last handler started
\*  closedByCaller  the caller's close() ran and no caller's connect() since
\*  closeStreak     close() calls in a row, up to 2
\*  scenario        "fresh" until the first connect(); "running" while only
\*                  transport closes, transport errors and timers followed
\*                  it; "void" afterwards
\*  closes          transport-close events while the scenario is running
\*  exhausted       MaxReconnectError events emitted, up to CountCap
\*  gaveUp          MaxReconnectError was emitted and no caller's connect()
\*                  followed
\*  terminated      see Cur
HistInit ==
  [ wasConnected |-> FALSE, closedByCaller |-> FALSE, closeStreak |-> 0, scenario |-> "fresh",
    closes |-> 0, exhausted |-> 0, gaveUp |-> FALSE, terminated |-> FALSE,
    announced |-> 0 ]

GaveUp(m) == \E i \in 1..Len(m.out) : m.out[i].code = "MaxReconnectError"

Observe(name, m) ==
  [ wasConnected |-> isConnected,
    closedByCaller |->
      IF name = "close" THEN TRUE
      ELSE IF name = "connect" THEN FALSE
      ELSE hist.closedByCaller,
    closeStreak |-> IF name = "close" THEN Min(hist.closeStreak + 1, 2) ELSE 0,
    scenario |->
      IF name = "connect"
        THEN (IF hist.scenario = "fresh" THEN "running" ELSE "void")
      ELSE IF name \in {"close", "wsOpen", "wsMessage", "wsPong"} THEN "void"
      ELSE hist.scenario,
    closes |->
      IF name = "wsClose" /\ hist.scenario = "running" THEN hist.closes + 1
      ELSE hist.closes,
    exhausted |-> IF GaveUp(m) THEN Min(hist.exhausted + 1, CountCap) ELSE hist.exhausted,
    gaveUp |-> IF name = "connect" THEN FALSE ELSE (GaveUp(m) \/ hist.gaveUp),
    terminated |-> m.terminated,
    announced |->
      IF name = "wsOpen" THEN 0
      ELSE IF \E i \in 1..Len(m.out) : m.out[i].type = "reconnecting"
        THEN m.out[CHOOSE i \in 1..Len(m.out) : m.out[i].type = "reconnecting"].n
      ELSE hist.announced ]

\* The handler `name` ran and left the manager as m
Set(name, m) ==
  /\ ws' = m.ws
  /\ attached' = m.attached
  /\ isConnected' = m.isConnected
  /\ reconnectAttempts' = m.reconnectAttempts
  /\ lastPing' = m.lastPing
  /\ pongTimeout' = m.pongTimeout
  /\ pingInterval' = m.pingInterval
  /\ reconnectTimer' = m.reconnectTimer
  /\ timers' = m.timers
  /\ emitted' = m.out
  /\ hist' = Observe(name, m)
  /\ UNCHANGED <<options, now>>
  /\ UNCHANGED execVars

WsInit ==
  /\ options \in {Constructor(o) : o \in OptionInputs}
  /\ ws = NoWs
  /\ attached = 0
  /\ isConnected = FALSE
  /\ reconnectAttempts = 0
  /\ lastPing = NoTime
  /\ pongTimeout = NoHandle
  /\ pingInterval = NoHandle
  /\ reconnectTimer = NoHandle
  /\ timers = {}
  /\ now = 0
  /\ emitted = <<>>
  /\ hist = HistInit

\* ---- the caller ----
CallerConnect == Set("connect", ConnectM(Cur))

CallerClose == Set("close", CloseM(Cur))

\* ---- the transport's events on the attached channel ----
\* A plausible bug: the attempt counter survives the opening
OpenHandlerKeepsAttempts(m) ==
  Emit([m EXCEPT !.isConnected = TRUE], Event("connected", "", 0))

\* the 'open' handler
OpenHandler(m) ==
  Emit([m EXCEPT !.isConnected = TRUE, !.reconnectAttempts = 0],
       Event("connected", "", 0))

WsOpen ==
  /\ ws.readyState = "CONNECTING"
  /\ Set("wsOpen", OpenHandler([Cur EXCEPT !.ws.readyState = "OPEN"]))

Frames == {"payment_update", "other", "malformed"}

\* A plausible bug: a frame that does not parse is treated as a lost connection
MessageHandlerTearsDown(m, frame) ==
  CASE frame = "payment_update" -> Emit(m, Event("payment_update", "", 0))
    [] frame = "other" -> m
    [] frame = "malformed" ->
         Emit(ClearTimer(ClearTimer([m EXCEPT !.isConnected = FALSE], "ping"), "pong"),
              Event("error", "MessageParseError", 0))

\* The 'message' handler: the frame is a payment update, another JSON
\* document, or bytes that JSON.parse rejects
MessageHandler(m, frame) ==
  CASE frame = "payment_update" -> Emit(m, Event("payment_update", "", 0))
    [] frame = "other" -> m
    [] frame = "malformed" -> Emit(m, Event("error", "MessageParseError", 0))

\* A frame arrives
WsMessage(frame) ==
  /\ ws.readyState = "OPEN"
  /\ Set("wsMessage", MessageHandler(Cur, frame))

\* The peer answers a ping
WsPong ==
  /\ ws.readyState = "OPEN"
  /\ ws.pings > 0
  /\ Set("wsPong",
         Emit(ClearTimer([Cur EXCEPT !.ws.pings = @ - 1], "pong"),
              Event("pong", "", now - lastPing)))

WsClose ==
  /\ ws.readyState \in {"CONNECTING", "OPEN"}
  /\ Set("wsClose",
         HandleDisconnectM([Cur EXCEPT !.ws.readyState = "CLOSED"], "closed by peer"))

WsError ==
  /\ ws.readyState \in {"CONNECTING", "OPEN"}
  /\ Set("wsError", Emit(Cur, Event("error", "WebSocketError", 0)))

\* ---- the event loop's timers ----
Due(kind) == {t \in timers : t.kind = kind /\ t.left = 0}

PingTick ==
  \E t \in Due("ping") :
    Set("pingTick",
        PingCallback([Cur EXCEPT !.timers =
           (@ \ {t}) \cup {[t EXCEPT !.left = options.pingInterval]}]))

PongTimeoutFires ==
  \E t \in Due("pong") :
    Set("pongTimeout", PongTimeoutCallback([Cur EXCEPT !.timers = @ \ {t}]))

ReconnectFires ==
  \E t \in Due("reconnect") :
    Set("reconnect", ConnectM([Cur EXCEPT !.timers = @ \ {t}]))

RECURSIVE Gcd(_, _)
Gcd(a, b) == IF b = 0 THEN a ELSE Gcd(b, a % b)

\* Time is counted in steps of the largest duration that divides every
\* configured one, so that every deadline falls on a step.
Granule == Gcd(options.reconnectDelay, Gcd(options.pingInterval, options.pongTimeout))

MinLeft == CHOOSE d \in {t.left : t \in timers} : \A t \in timers : d <= t.left

\* Time passes, at most until the next deadline; a due timer fires first.
Advance ==
  /\ timers # {}
  /\ \A t \in timers : t.left > 0
  /\ \E k \in 1..(MinLeft \div Granule) :
       /\ timers' = {[t EXCEPT !.left = @ - k * Granule] : t \in timers}
       /\ now' = Min(now + k * Granule, MaxTime)
  /\ emitted' = <<>>
  /\ hist' = [hist EXCEPT !.closeStreak = 0, !.wasConnected = isConnected]
  /\ UNCHANGED <<options, ws, attached, isConnected, reconnectAttempts, lastPing,
                 pongTimeout, pingInterval, reconnectTimer>>
  /\ UNCHANGED execVars

WsNext ==
  \/ CallerConnect
  \/ CallerClose
  \/ WsOpen
  \/ \E frame \in Frames : WsMessage(frame)
  \/ WsPong
  \/ WsClose
  \/ WsError
  \/ PingTick
  \/ PongTimeoutFires
  \/ ReconnectFires
  \/ Advance

\* ------------------------------------------------------------------------
\* The two specifications
\* ------------------------------------------------------------------------
NoOptions ==
  [maxReconnectAttempts |-> 0, reconnectDelay |-> 0, pingInterval |-> 0, pongTimeout |-> 0]

\* The executor, beside a manager that was constructed and is left alone
ExecStart == ExecInit /\ WsInit /\ options = Constructor(NoOptions)

ExecSpec == ExecStart /\ [][ExecNext]_vars

\* The manager, beside an executor that is left alone
WsStart == WsInit /\ ExecInit

WsSpec == WsStart /\ [][WsNext]_vars

\* The caller's one connect() of a session that it never closes
FirstConnect ==
  /\ hist.scenario = "fresh"
  /\ CallerConnect

\* The connecting channel reports open or close
ChannelReports ==
  /\ ws.readyState = "CONNECTING"
  /\ (WsOpen \/ WsClose)

\* Time passes and the timers that are due fire
TimersRun == PingTick \/ PongTimeoutFires \/ ReconnectFires \/ Advance

WsLiveNext ==
  \/ FirstConnect
  \/ WsOpen
  \/ \E frame \in Frames : WsMessage(frame)
  \/ WsPong
  \/ WsClose
  \/ WsError
  \/ PingTick
  \/ PongTimeoutFires
  \/ ReconnectFires
  \/ Advance

\* The manager after one connect() and no close(), with a transport whose
\* connecting channels report open or close and an event loop whose timers
\* fire
WsLiveSpec ==
  /\ WsStart
  /\ [][WsLiveNext]_vars
  /\ WF_vars(ChannelReports)
  /\ WF_vars(TimersRun)

\* ------------------------------------------------------------------------
\* Request executor: claims
\* ------------------------------------------------------------------------
\* The answers the call has received so far
Responded(c) == dispatches[c] - (IF pc[c] = "inflight" THEN 1 ELSE 0)

IsFailure(c) == result[c].kind = "failure"

\* C1: when the transport answers 429 or 5xx on attempts 1..retries-1 and a
\* success on attempt `retries`, the call returns that success payload after
\* exactly `retries` dispatches.
C1_RetriesUntilSuccess ==
  \A c \in Calls :
    ( /\ pc[c] = "done"
      /\ Len(script[c]) = retries[c]
      /\ \A k \in 1..(retries[c] - 1) : IsRetryableStatus(script[c][k])
      /\ IsSuccess(script[c][retries[c]]) )
    => /\ result[c].kind = "success"
       /\ result[c].data = Body(c, retries[c], script[c][retries[c]])
       /\ dispatches[c] = retries[c]

\* C2: when the first dispatch is answered with a 4xx other than 429, the
\* call has failed after that one dispatch, with no wait and no second
\* dispatch, whatever `retries` is.
C2_TerminalFailsAfterOneDispatch ==
  \A c \in Calls :
    (Responded(c) >= 1 /\ Is4xxNot429(script[c][1]))
    => /\ pc[c] = "done"
       /\ IsFailure(c)
       /\ dispatches[c] = 1
       /\ waits[c] = <<>>

C2_Witness ==
  \E c \in Calls :
    /\ retries[c] >= 2
    /\ script[c][1] = 404
    /\ pc[c] = "done"
    /\ IsFailure(c)
    /\ dispatches[c] = 1

\* C3: the wait after a retryable failure of attempt k, k < retries, is
\* exactly INITIAL_DELAY * BACKOFF_FACTOR^(k-1): 1000, 2000, 4000, ...
C3_WaitIsExponential ==
  \A c \in Calls :
    \A k \in 1..Responded(c) :
      (IsRetryableStatus(ScriptAt(script[c], k)) /\ k < retries[c])
      => /\ Len(waits[c]) >= k
         /\ waits[c][k] = INITIAL_DELAY * Pow(BACKOFF_FACTOR, k - 1)

\* C4: when every dispatch is answered with a retryable failure, the call
\* ends only after `retries` dispatches, and with a failure.
C4_ExhaustsAttempts ==
  \A c \in Calls :
    ( /\ pc[c] = "done"
      /\ Len(script[c]) = retries[c]
      /\ \A k \in 1..retries[c] : IsRetryableStatus(script[c][k]) )
    => /\ dispatches[c] = retries[c]
       /\ IsFailure(c)

\* C5: a failure result carries the status code, the message and the payload
\* of the last failed attempt whenever that attempt got an HTTP response.
C5_FailureKeepsDetail ==
  \A c \in Calls :
    ( /\ pc[c] = "done"
      /\ IsFailure(c)
      /\ ScriptAt(script[c], dispatches[c]) # NetErr )
    => LET s == ScriptAt(script[c], dispatches[c])
           body == Body(c, dispatches[c], s)
       IN /\ result[c].error.statusCode = s
          /\ result[c].error.code = s
          /\ result[c].error.data = body
          /\ result[c].error.message = Message(body)

\* ------------------------------------------------------------------------
\* Connection manager: claims
\* ------------------------------------------------------------------------
Pending(kind) == {t \in timers : t.kind = kind}

Emitted(type, code) ==
  \E i \in 1..Len(emitted) : emitted[i].type = type /\ emitted[i].code = code

Terminated == hist.terminated /\ ~isConnected /\ Pending("reconnect") = {}

\* C6, as claimed: with maxReconnectAttempts = 5, after connect() and 5
\* transport closes with no open in between, the manager is Terminated and
\* has emitted MaxReconnectError exactly once.
C6_TerminatedAfterFiveCloses ==
  ( /\ options.maxReconnectAttempts = 5
    /\ hist.scenario = "running"
    /\ hist.closes = 5 )
  => (Terminated /\ hist.exhausted = 1)

\* C6, amended: with maxReconnectAttempts = 5, after connect() and 6
\* transport closes with no open in between (the first channel's and those of
\* the 5 reconnections), the manager is Terminated and has emitted
\* MaxReconnectError exactly once.
C6_TerminatedAfterSixCloses ==
  ( /\ options.maxReconnectAttempts = 5
    /\ hist.scenario = "running"
    /\ hist.closes = 6 )
  => (Terminated /\ hist.exhausted = 1)

C6_Witness ==
  /\ options.maxReconnectAttempts = 5
  /\ hist.scenario = "running"
  /\ hist.closes = 6
  /\ Terminated
  /\ Emitted("error", "MaxReconnectError")

\* C7: from the caller's close() until the caller's next connect(), no channel
\* is attached, the manager is not connected, no timer is pending and no
\* event is emitted.
C7_NothingAfterClose ==
  hist.closedByCaller
  => /\ ws = NoWs
     /\ ~isConnected
     /\ timers = {}
     /\ emitted = <<>>

\* C8: the second of two close() calls in a row emits nothing, leaves no
\* timer pending and leaves the manager as the first call left it.
C8_CloseIsIdempotent ==
  [][ hist'.closeStreak = 2
      => /\ emitted' = <<>>
         /\ timers' = {}
         /\ <<ws', isConnected', reconnectAttempts', lastPing', pongTimeout',
              pingInterval', reconnectTimer', timers'>>
            = <<ws, isConnected, reconnectAttempts, lastPing, pongTimeout,
                pingInterval, reconnectTimer, timers>> ]_vars

PongTimedOut == Emitted("disconnected", "Pong timeout")

C10_OneProbeOutstanding ==
  /\ Cardinality(Pending("pong")) <= 1
  /\ ws.pings <= 1

EmittedType(type) == \E i \in 1..Len(emitted) : emitted[i].type = type

\* The delays of the reconnection attempts 1..5 under the default options
DefaultDelays == <<1000, 2000, 4000, 8000, 16000>>

\* C11: a handler that announces reconnection attempt n has counted
\* reconnectAttempts up to n and left exactly one reconnect timer, set to
\* reconnectDelay * 2^(n-1) with no cap (1000, 2000, 4000, 8000, 16000 ms
\* under the defaults); a disconnect that finds reconnectAttempts at
\* maxReconnectAttempts leaves no reconnect timer, announces no attempt and
\* emits MaxReconnectError.
C11_ReconnectDelay ==
  [][ /\ \A i \in 1..Len(emitted') :
           emitted'[i].type = "reconnecting"
           => LET n == emitted'[i].n
              IN /\ n = reconnectAttempts + 1
                 /\ reconnectAttempts' = n
                 /\ n <= options.maxReconnectAttempts
                 /\ Pending("reconnect")' =
                      {[ kind |-> "reconnect", held |-> TRUE,
                         left |-> options.reconnectDelay * Pow(2, n - 1) ]}
                 /\ options = Constructor(NoOptions)
                    => \A t \in Pending("reconnect")' : t.left = DefaultDelays[n]
      /\ (EmittedType("disconnected")'
            /\ reconnectAttempts >= options.maxReconnectAttempts)
         => /\ Pending("reconnect")' = {}
            /\ ~EmittedType("reconnecting")'
            /\ Emitted("error", "MaxReconnectError")'
            /\ reconnectAttempts' = reconnectAttempts ]_vars

C11_Witness ==
  /\ options = Constructor(NoOptions)
  /\ \E i \in 1..Len(emitted) : emitted[i].type = "reconnecting" /\ emitted[i].n = 5
  /\ \E t \in Pending("reconnect") : t.left = 16000

\* C12: a caller's connect() on a Terminated manager sets reconnectAttempts
\* to 0, so that the new session can make maxReconnectAttempts reconnection
\* attempts.
C12_ConnectResetsAttempts ==
  [][ (Terminated /\ CallerConnect) => reconnectAttempts' = 0 ]_vars

\* C13: from the emission of MaxReconnectError until the caller's next
\* connect(), no reconnect timer is pending and no new channel is attached.
C13_TerminatedStaysDown ==
  [][ (hist.gaveUp /\ ~CallerConnect)
      => /\ Pending("reconnect") = {}
         /\ Pending("reconnect")' = {}
         /\ ws'.readyState = "CONNECTING" => ws' = ws ]_vars

\* C17: a handler that reports a frame that does not parse emits that one
\* error event and changes nothing else: a connected manager stays connected,
\* reconnectAttempts, the timers, their handles and the channel are as
\* before.
C17_MalformedFrameIsHarmless ==
  [][ Emitted("error", "MessageParseError")'
      => /\ emitted' = <<Event("error", "MessageParseError", 0)>>
         /\ ~EmittedType("disconnected")'
         /\ isConnected' = isConnected
         /\ <<ws', reconnectAttempts', lastPing', pongTimeout', pingInterval',
              reconnectTimer', timers'>>
            = <<ws, reconnectAttempts, lastPing, pongTimeout, pingInterval,
                reconnectTimer, timers>> ]_vars

C17_Witness ==
  /\ Emitted("error", "MessageParseError")
  /\ isConnected
  /\ hist.wasConnected
  /\ Pending("ping") # {}
  /\ Pending("pong") # {}

\* ------------------------------------------------------------------------
\* Request executor: admission, validation, bounds and order of the attempts
\* ------------------------------------------------------------------------
RECURSIVE SumDispatches(_)
\* The requests handed to the transport by the calls 1..n
SumDispatches(n) == IF n = 0 THEN 0 ELSE dispatches[n] + SumDispatches(n - 1)

\* C14: the tokens taken from the limiter are exactly as many as the
\* requests dispatched, by first attempts and retries of all calls together,
\* and never more than the limiter had: every dispatch has taken a token of
\* its own.
C14_EveryDispatchIsAdmitted ==
  /\ TokensPerInterval - tokens = SumDispatches(NumCalls)
  /\ tokens >= 0
  /\ \A c \in Calls : pc[c] = "inflight" => dispatches[c] >= 1

C14_Witness ==
  \E c, d \in Calls :
    /\ c # d
    /\ dispatches[c] = 1
    /\ dispatches[d] = 1
    /\ tokens = TokensPerInterval - 2

\* C18: when the schema of an operation rejects the parameters, the
\* operation has thrown a ValidationError and that is all: _retryRequest was
\* not entered, no request was dispatched, no token was taken for the call
\* and nothing was waited for.
C18_ValidationFailsBeforeDispatch ==
  /\ \A c \in Calls :
       refused[c]
       => /\ pc[c] = "rejected"
          /\ result[c].kind = "failure"
          /\ result[c].error.name = "ValidationError"
          /\ retries[c] = 0
          /\ attempt[c] = 0
          /\ dispatches[c] = 0
          /\ waits[c] = <<>>
  /\ TokensPerInterval - tokens = SumDispatches(NumCalls)

C18_Witness ==
  \E c, d \in Calls :
    /\ refused[c]
    /\ pc[c] = "rejected"
    /\ result[c].error.name = "ValidationError"
    /\ dispatches[c] = 0
    /\ pc[d] = "inflight"
    /\ tokens = TokensPerInterval - 1

\* C19: a call of _retryRequest never has more dispatches than `retries`,
\* and when it has returned or thrown it has at least one, whatever the
\* transport answered.
C19_DispatchesWithinAttempts ==
  \A c \in Calls :
    /\ dispatches[c] <= retries[c]
    /\ pc[c] = "done" => dispatches[c] >= 1

C19_Witness ==
  \E c \in Calls :
    /\ pc[c] = "done"
    /\ retries[c] = MAX_RETRIES
    /\ IsRetryableStatus(script[c][1])
    /\ dispatches[c] >= 1

C21_OpenConnects ==
  [][ (ws.readyState = "CONNECTING" /\ ws'.readyState = "OPEN")
      => /\ isConnected'
         /\ reconnectAttempts' = 0
         /\ emitted' = <<Event("connected", "", 0)>> ]_vars

C21_Witness ==
  /\ EmittedType("connected")
  /\ isConnected
  /\ reconnectAttempts = 0
  /\ hist.closes >= 1
  /\ ws.readyState = "OPEN"

\* C22: when the transport reports closed or errored on a channel that is
\* connecting or connected, the manager is no longer connected, the ping
\* interval is stopped, disconnected is emitted, and a reconnect is scheduled
\* or, with no attempt left, the manager is Terminated; an error report alone
\* does all of this.
C22_CloseOrErrorDisconnects ==
  [][ ( /\ ws.readyState = "CONNECTING" \/ isConnected
        /\ WsClose \/ WsError )
      => /\ ~isConnected'
         /\ Pending("ping")' = {}
         /\ EmittedType("disconnected")'
         /\ Pending("reconnect")' # {} \/ Terminated' ]_vars

\* C23: while the manager is not connected, no ping interval is running, no
\* probe is unacknowledged and no pong deadline is armed.
C23_HeartbeatOnlyWhileConnected ==
  ~isConnected
  => /\ Pending("ping") = {}
     /\ Pending("pong") = {}

\* The pong deadline that was armed first among the pending ones
OldestPong ==
  CHOOSE t \in Pending("pong") : \A u \in Pending("pong") : t.left <= u.left

\* C24: when the peer acknowledges a probe while every unacknowledged probe
\* of the connected channel still has its deadline armed, the deadline of the
\* acknowledged probe (the oldest) is cancelled and no other, one pong event
\* is emitted, the manager stays connected and reconnectAttempts stays as it
\* is: no deadline is left that belongs to an acknowledged probe.
C24_AcknowledgedProbeIsDisarmed ==
  [][ ( /\ WsPong
        /\ isConnected
        /\ Cardinality(Pending("pong")) = ws.pings )
      => /\ Pending("pong")' = Pending("pong") \ {OldestPong}
         /\ Len(emitted') = 1
         /\ emitted'[1].type = "pong"
         /\ isConnected'
         /\ reconnectAttempts' = reconnectAttempts ]_vars

\* C25: at most one channel carries handlers of the manager, and it is the
\* one the manager holds: connect() by the caller or by the reconnect timer
\* has detached the previous channel before it attaches the new one.
C25_OneChannelAttached ==
  /\ attached <= 1
  /\ attached = 1 <=> ws # NoWs

C25_Witness ==
  /\ attached = 1
  /\ ws.readyState = "CONNECTING"
  /\ hist.scenario = "void"
  /\ hist.closes >= 1
  /\ reconnectAttempts >= 1

\* C26: right after the transport reports open, getState() returns a
\* last-connected time, and it is the time of that open.
C26_LastConnectedIsTimeOfOpen ==
  [][ WsOpen
      => /\ GetState'.lastConnected # NoTime
         /\ GetState'.lastConnected = now' ]_vars

\* C29: a close report of a channel whose pong deadline has already
\* disconnected the manager emits no disconnected and no reconnecting event
\* and leaves reconnectAttempts as it is.
C29_OneLossCountedOnce ==
  [][ (ws.readyState = "OPEN" /\ ~isConnected /\ WsClose)
      => /\ ~EmittedType("disconnected")'
         /\ ~EmittedType("reconnecting")'
         /\ reconnectAttempts' = reconnectAttempts ]_vars

\* C30: reconnectAttempts is between 0 and maxReconnectAttempts, and at most
\* one reconnect timer is pending.
C30_AttemptsAndTimerBounded ==
  /\ reconnectAttempts >= 0
  /\ reconnectAttempts <= options.maxReconnectAttempts
  /\ Cardinality(Pending("reconnect")) <= 1

C30_Witness ==
  /\ reconnectAttempts = options.maxReconnectAttempts
  /\ Cardinality(Pending("reconnect")) = 1
  /\ EmittedType("reconnecting")

\* ------------------------------------------------------------------------
\* Request executor: network errors and the log
\* ------------------------------------------------------------------------
\* C27: when the first dispatch fails without an HTTP response, the call has
\* thrown that very error after that one dispatch, with no wait and no second
\* dispatch, whatever `retries` is.
C27_NetworkErrorIsTerminal ==
  \A c \in Calls :
    (Responded(c) >= 1 /\ script[c][1] = NetErr)
    => /\ pc[c] = "done"
       /\ IsFailure(c)
       /\ result[c].error = AxiosError(c, 1, NetErr)
       /\ dispatches[c] = 1
       /\ waits[c] = <<>>

C27_Witness ==
  \E c \in Calls :
    /\ retries[c] >= 2
    /\ script[c][1] = NetErr
    /\ pc[c] = "done"
    /\ result[c].error.name = "AxiosError"
    /\ ~result[c].error.hasResponse
    /\ dispatches[c] = 1

\* C28: a call that has ended has written one log line for each of its
\* dispatches, failed ones included.
C28_EveryAttemptIsLogged ==
  \A c \in Calls : pc[c] = "done" => logs[c] = dispatches[c]

\* ------------------------------------------------------------------------
\* Connection manager: the sequence of reconnection attempts
\* ------------------------------------------------------------------------
\* C31: every reconnecting(n) event comes right after a disconnected event
\* of the same handler, n is one more than the attempt announced last since
\* the last open (1 when none was), and n is at most maxReconnectAttempts.
C31_AttemptsAreNumberedInOrder ==
  [][ \A i \in 1..Len(emitted') :
        emitted'[i].type = "reconnecting"
        => /\ i > 1
           /\ emitted'[i - 1].type = "disconnected"
           /\ emitted'[i].n = hist.announced + 1
           /\ emitted'[i].n <= options.maxReconnectAttempts ]_vars

C31_Witness ==
  /\ Len(emitted) = 2
  /\ emitted[1].type = "disconnected"
  /\ emitted[2].type = "reconnecting"
  /\ emitted[2].n = 2
  /\ hist.announced = 2

\* C32: after connect(), when the caller never calls close(), every
\* connecting channel reports open or close and every armed timer fires, the
\* manager is again and again connected or Terminated: it does not stay
\* connecting or waiting for a reconnection forever.
C32_ReachesConnectedOrTerminated ==
  [](hist.scenario # "fresh" => <>(isConnected \/ Terminated))

C32_Witness ==
  /\ Terminated
  /\ hist.scenario = "running"
  /\ hist.closes = options.maxReconnectAttempts + 1
  /\ reconnectAttempts = options.maxReconnectAttempts
  /\ ws.readyState = "CLOSED"

====
